---- MODULE Spec2Model ----
(***************************************************************************)
(* The persistence layer of the short-link service: the Local Store        *)
(* (SQLiteDB, src/sqlite.go) and the Remote Store (ConvexDB,               *)
(* src/convex.go).                                                         *)
(*                                                                         *)
(* A display name is a sequence of one-character strings.  A time.Time is  *)
(* a number of ticks, TicksPerSecond ticks to the second, so that          *)
(* Time.Unix() loses the sub-second part.                                  *)
(***************************************************************************)
EXTENDS Bags, FiniteSets, Integers, Sequences, TLC

\* ------------------------------------------------------------------ bounds
\* Number of goroutines calling into one SQLiteDB instance.
NumProcs == 2
\* Number of operations called in one behaviour without failures.
MaxCalls == 3
\* Number of operations called in one behaviour with failures.
MaxCallsFaulty == 2
\* Largest number of entries of one ClickStats map.
MaxDeltas == 2
\* Largest click count of one ClickStats entry.
MaxClicks == 2
\* Number of engine failures injected in one behaviour of SpecFaults.
MaxFaults == 1
\* Resolution of a time.Time, in ticks per second.
TicksPerSecond == 2

Procs == 1 .. NumProcs
NoProc == 0

\* ------------------------------------------------------------------ inputs
\* Display names: "", "a", "A-" (the last two share the key "a").
Shorts == { <<>>, <<"a">>, <<"A", "-">> }

\* The fields of a Link other than its display name.
Payloads ==
    { [Long |-> "http://example.com", Created |-> 3, LastEdit |-> 3, Owner |-> "alice"],
      [Long |-> "http://other.example", Created |-> 4, LastEdit |-> 7, Owner |-> "bob"] }

LinkInputs ==
    { [Short |-> s, Long |-> q.Long, Created |-> q.Created,
       LastEdit |-> q.LastEdit, Owner |-> q.Owner] : s \in Shorts, q \in Payloads }

\* ClickStats values: display name -> count.
StatsInputs ==
    UNION { [D -> 1 .. MaxClicks] :
            D \in { E \in SUBSET Shorts : Cardinality(E) <= MaxDeltas } }

\* --------------------------------------------------------- pure functions
ToLower(c) == CASE c = "A" -> "a" [] c = "B" -> "b" [] OTHER -> c

\* The normalized key of a display name: lower case, dashes removed.
RECURSIVE linkID(_)
linkID(short) ==
    IF short = <<>> THEN <<>>
    ELSE LET c == ToLower(Head(short))
             rest == linkID(Tail(short))
         IN  IF c = "-" THEN rest ELSE <<c>> \o rest

\* Time.Unix(): whole seconds of a time.
Unix(t) == t \div TicksPerSecond

\* time.Unix(sec, 0): the time at a whole second.
TimeUnix(sec) == sec * TicksPerSecond

\* The row of table Links that Save writes for a Link.
LinkRow(link) ==
    [ID |-> linkID(link.Short), Short |-> link.Short, Long |-> link.Long,
     Created |-> Unix(link.Created), LastEdit |-> Unix(link.LastEdit),
     Owner |-> link.Owner]

\* rows.Scan of LoadAll and Load: the Link of a row of table Links.
ScanLink(row) ==
    [Short |-> row.Short, Long |-> row.Long, Created |-> TimeUnix(row.Created),
     LastEdit |-> TimeUnix(row.LastEdit), Owner |-> row.Owner]

\* Table Links has primary key ID: two rows conflict when their IDs agree.
PrimaryKeyConflict(r1, r2) == r1.ID = r2.ID

\* INSERT OR IGNORE: a conflicting row keeps the new row out.
InsertOrIgnore(table, row) ==
    IF \E r \in table : PrimaryKeyConflict(r, row) THEN table ELSE table \cup { row }

\* A REPLACE that deletes the conflicting rows and inserts nothing.
DeleteOnConflict(table, row) ==
    IF \E r \in table : PrimaryKeyConflict(r, row)
    THEN { r \in table : ~PrimaryKeyConflict(r, row) }
    ELSE table \cup { row }

\* INSERT OR REPLACE INTO Links: rows that conflict with the new row on the
\* primary key are deleted, then the new row is inserted.
InsertOrReplace(table, row) ==
    { r \in table : ~PrimaryKeyConflict(r, row) } \cup { row }

\* result.RowsAffected() of the INSERT OR REPLACE: the engine counts the
\* inserted row and not the rows the REPLACE deleted.
RowsAffected(table, row) == 1

\* A result that reports no affected row for a statement that was executed.
RowsMiscounted(table, row) == 0

\* Save's check of the affected rows.
SaveErr(rows) == IF rows # 1 THEN "expected to affect 1 row" ELSE "nil"

\* Load without the mapping of sql.ErrNoRows.
LoadErrUnmapped(err) == err

\* Load's mapping of the error of row.Scan.
LoadErr(err) == IF err = "sql.ErrNoRows" THEN "fs.ErrNotExist" ELSE err

\* The row of table Stats that SaveStats writes for one entry.  The Created
\* column (the wall clock) is read by no statement and is left out.
StatsRow(short, clicks) == [ID |-> linkID(short), Clicks |-> clicks]

RECURSIVE SumRows(_, _)
SumRows(bag, rows) ==
    IF rows = {} THEN 0
    ELSE LET r == CHOOSE x \in rows : TRUE
         IN  r.Clicks * CopiesIn(r, bag) + SumRows(bag, rows \ {r})

\* SELECT ID, sum(Clicks) FROM Stats GROUP BY ID: ID -> sum.
GroupSum(bag) ==
    LET ids == { r.ID : r \in BagToSet(bag) }
    IN  [id \in ids |-> SumRows(bag, { r \in BagToSet(bag) : r.ID = id })]

\* LoadStats' linkmap: ID -> Short of the Links LoadAll returned.
LinkMap(links) ==
    LET ids == { linkID(l.Short) : l \in links }
    IN  [id \in ids |-> (CHOOSE l \in links : linkID(l.Short) = id).Short]

\* linkmap[id] of a Go map: the zero value "" for a missing key.
MapGet(linkmap, id) == IF id \in DOMAIN linkmap THEN linkmap[id] ELSE <<>>

\* The maps LoadStats' loop can build: stats[linkmap[id]] = clicks for every
\* row of the GROUP BY, in the order the engine yields them, which the
\* query leaves open: of the rows that share a display name any may be last.
StatsResults(linkmap, groups) ==
    LET names == { MapGet(linkmap, id) : id \in DOMAIN groups }
    IN  { f \in [names -> { groups[id] : id \in DOMAIN groups }] :
            \A s \in names :
               \E id \in DOMAIN groups : MapGet(linkmap, id) = s /\ f[s] = groups[id] }


\* ------------------------------------------------------------------- state
VARIABLES
    Links,    \* table Links: a set of rows
    Stats,    \* table Stats: a bag of rows
    mu,       \* the RWMutex: the writer that owns it (or NoProc), the readers
    pc,       \* where each goroutine is in the operation it runs
    call,     \* the operation each goroutine runs or ran last, with its argument
    local,    \* the local variables of the operation each goroutine runs
    ret,      \* what the last operation of each goroutine returned
    calls,    \* how many operations may still be called
    faults,   \* how many engine failures may still happen
    backend,  \* the Storage Backend chosen at construction: "sqlite", "convex",
              \* or "both" for one store of each kind side by side
    remote,   \* the remote service: its Link documents and its click counters
    http,     \* the HTTP exchange each goroutine has in flight
    saved,    \* history: key -> the Link of the last Save that returned nil
    clicked,  \* history: key -> the counts passed to SaveStats calls that returned nil
    peak,     \* history: the most Save calls that were in progress at once
    window    \* history: what LoadStats would return on each store state
              \* that existed since a goroutine called it

vars == <<Links, Stats, mu, pc, call, local, ret, calls, faults, backend, remote, http,
          saved, clicked, peak, window>>

NoCall == [op |-> "none"]
NoLocal == [none |-> TRUE]
Pending == [err |-> "pending"]
NoHttp == [state |-> "none"]

\* What the engine may do with a statement: succeed, or fail while failures
\* are left to inject.
Outcomes == IF faults > 0 THEN {TRUE, FALSE} ELSE {TRUE}

Fault(ok) == faults' = IF ok THEN faults ELSE faults - 1

\* ------------------------------------------------------------- the RWMutex
\* RLock: a reader enters unless a writer owns the mutex or has announced
\* itself (a pending writer blocks new readers).
CanRLock == mu.w = NoProc
RLocked == [mu EXCEPT !.readerCount = @ + 1]
\* A reader that leaves without RUnlock.
RUnlockSkipped == mu
RUnlocked == [mu EXCEPT !.readerCount = @ - 1]
\* Lock, first half: take the writers' mutex and announce the writer.
CanAnnounce == mu.w = NoProc
Announced(p) == [mu EXCEPT !.w = p]
\* Lock that does not wait for the readers.
CanLockDespiteReaders(p) == mu.w = p
\* Lock, second half: wait for the active readers to leave.
CanLock(p) == mu.w = p /\ mu.readerCount = 0
\* A return that leaves the mutex locked.
UnlockSkipped == mu
Unlocked == [mu EXCEPT !.w = NoProc]

Goto(p, label) == pc' = [pc EXCEPT ![p] = label]

\* With one store of each kind side by side, the goroutine that calls the
\* SQLiteDB and the goroutine that calls the ConvexDB.
Callers == [sqlite |-> 1, convex |-> 2]

\* Goroutine p may call an operation of the store of the given kind.  With
\* both stores side by side the calls come one after the other: each call is
\* made on the SQLiteDB first and, once it has returned, with the same
\* arguments on the ConvexDB.
CanCall(p, store) ==
    /\ pc[p] = "idle" /\ calls > 0
    /\ \/ backend = store
       \/ /\ backend = "both"
          /\ p = Callers[store]
          /\ \A q \in Procs : pc[q] = "idle"
          /\ (calls % 2 = 0) <=> (store = "sqlite")
Return(p, r) == ret' = [ret EXCEPT ![p] = r] /\ pc' = [pc EXCEPT ![p] = "idle"]

LoadStatsLabels ==
    { "LoadStats_RLock1", "LoadStats_LoadAll", "LoadStats_RLock2", "LoadStats_Query" }

\* The maps LoadStats can return when both its queries read one store state.
LoadStatsOn(links, stats) ==
    StatsResults(LinkMap({ ScanLink(r) : r \in links }), GroupSum(stats))

\* The history of the store states that the LoadStats calls in progress have
\* lived through, once a write has made the store links and stats.
Watched(links, stats) ==
    [q \in Procs |-> IF pc[q] \in LoadStatsLabels
                     THEN window[q] \cup LoadStatsOn(links, stats)
                     ELSE window[q]]

\* ------------------------------------------------------------------ LoadAll
Call_LoadAll(p) ==
    /\ CanCall(p, "sqlite")
    /\ calls' = calls - 1
    /\ call' = [call EXCEPT ![p] = [op |-> "LoadAll"]]
    /\ local' = [local EXCEPT ![p] = NoLocal]
    /\ ret' = [ret EXCEPT ![p] = Pending]
    /\ Goto(p, "LoadAll_RLock")
    /\ UNCHANGED <<Links, Stats, mu, faults, saved, clicked, peak, window, backend, remote, http>>

LoadAll_RLock(p) ==
    /\ pc[p] = "LoadAll_RLock" /\ CanRLock
    /\ mu' = RLocked
    /\ Goto(p, "LoadAll_Query")
    /\ UNCHANGED <<Links, Stats, call, local, ret, calls, faults, saved, clicked, peak, window, backend, remote, http>>

\* LoadAll reading one row instead of looping over all of them.
LoadAllFirstRow(ok) ==
    IF ok THEN [err |-> "nil",
                links |-> IF Links = {} THEN {}
                          ELSE { ScanLink(CHOOSE r \in Links : TRUE) }]
    ELSE [err |-> "io"]

\* What LoadAll's query and loop return.
LoadAllResult(ok) ==
    IF ok THEN [err |-> "nil", links |-> { ScanLink(r) : r \in Links }]
    ELSE [err |-> "io"]

LoadAll_Query(p) ==
    /\ pc[p] = "LoadAll_Query"
    /\ \E ok \in Outcomes :
          /\ Return(p, LoadAllResult(ok))
          /\ Fault(ok)
    /\ mu' = RUnlocked
    /\ UNCHANGED <<Links, Stats, call, local, calls, saved, clicked, peak, window, backend, remote, http>>

\* --------------------------------------------------------------------- Load
Call_Load(p) ==
    /\ CanCall(p, "sqlite")
    /\ \E short \in Shorts :
          call' = [call EXCEPT ![p] = [op |-> "Load", short |-> short]]
    /\ calls' = calls - 1
    /\ local' = [local EXCEPT ![p] = NoLocal]
    /\ ret' = [ret EXCEPT ![p] = Pending]
    /\ Goto(p, "Load_RLock")
    /\ UNCHANGED <<Links, Stats, mu, faults, saved, clicked, peak, window, backend, remote, http>>

Load_RLock(p) ==
    /\ pc[p] = "Load_RLock" /\ CanRLock
    /\ mu' = RLocked
    /\ Goto(p, "Load_Query")
    /\ UNCHANGED <<Links, Stats, call, local, ret, calls, faults, saved, clicked, peak, window, backend, remote, http>>

\* SELECT ... FROM Links WHERE ID = ?1 LIMIT 1 and row.Scan.
LoadResults(short, ok) ==
    LET rows == { r \in Links : r.ID = linkID(short) }
    IN  IF ~ok THEN { [err |-> LoadErr("io")] }
        ELSE IF rows = {} THEN { [err |-> LoadErr("sql.ErrNoRows")] }
        ELSE { [err |-> "nil", link |-> ScanLink(r)] : r \in rows }

Load_Query(p) ==
    /\ pc[p] = "Load_Query"
    /\ \E ok \in Outcomes :
          /\ \E r \in LoadResults(call[p].short, ok) : Return(p, r)
          /\ Fault(ok)
    /\ mu' = RUnlocked
    /\ UNCHANGED <<Links, Stats, call, local, calls, saved, clicked, peak, window, backend, remote, http>>

\* --------------------------------------------------------------------- Save
SaveLabels == { "Save_Lock", "Save_Wait", "Save_Exec" }

Call_Save(p) ==
    /\ CanCall(p, "sqlite")
    /\ \E link \in LinkInputs :
          call' = [call EXCEPT ![p] = [op |-> "Save", link |-> link]]
    /\ calls' = calls - 1
    /\ local' = [local EXCEPT ![p] = NoLocal]
    /\ ret' = [ret EXCEPT ![p] = Pending]
    /\ Goto(p, "Save_Lock")
    /\ LET n == 1 + Cardinality({ q \in Procs : pc[q] \in SaveLabels })
       IN  peak' = IF n > peak THEN n ELSE peak
    /\ UNCHANGED <<Links, Stats, mu, faults, saved, clicked, window, backend, remote, http>>

Save_Lock(p) ==
    /\ pc[p] = "Save_Lock" /\ CanAnnounce
    /\ mu' = Announced(p)
    /\ Goto(p, "Save_Wait")
    /\ UNCHANGED <<Links, Stats, call, local, ret, calls, faults, saved, clicked, peak, window, backend, remote, http>>

Save_Wait(p) ==
    /\ pc[p] = "Save_Wait" /\ CanLock(p)
    /\ Goto(p, "Save_Exec")
    /\ UNCHANGED <<Links, Stats, mu, call, local, ret, calls, faults, saved, clicked, peak, window, backend, remote, http>>

\* s.db.Exec of the INSERT OR REPLACE (no transaction is open: the
\* statement is committed when Exec returns), result.RowsAffected() and the
\* check of the row count.  A failure is a statement that the engine does
\* not execute, or one that it executes and reports with another row count.
Save_Exec(p) ==
    /\ pc[p] = "Save_Exec"
    /\ LET link == call[p].link
           row == LinkRow(link)
       IN  \E ok \in Outcomes :
              /\ Fault(ok)
              /\ \E executed \in (IF ok THEN {TRUE} ELSE {TRUE, FALSE}) :
                    IF executed
                    THEN LET rows == IF ok THEN RowsAffected(Links, row)
                                     ELSE RowsMiscounted(Links, row)
                             err == SaveErr(rows)
                         IN  /\ Links' = InsertOrReplace(Links, row)
                             /\ Return(p, [err |-> err])
                             /\ saved' = IF err = "nil"
                                         THEN [k \in DOMAIN saved \cup {row.ID} |->
                                                 IF k = row.ID THEN link ELSE saved[k]]
                                         ELSE saved
                    ELSE /\ Return(p, [err |-> "io"])
                         /\ UNCHANGED <<Links, saved>>
    /\ window' = Watched(Links', Stats)
    /\ mu' = Unlocked
    /\ UNCHANGED <<Stats, call, local, calls, clicked, peak, backend, remote, http>>


\* ---------------------------------------------------------------- LoadStats
Call_LoadStats(p) ==
    /\ CanCall(p, "sqlite")
    /\ calls' = calls - 1
    /\ call' = [call EXCEPT ![p] = [op |-> "LoadStats"]]
    /\ local' = [local EXCEPT ![p] = NoLocal]
    /\ ret' = [ret EXCEPT ![p] = Pending]
    /\ Goto(p, "LoadStats_RLock1")
    /\ window' = [window EXCEPT ![p] = LoadStatsOn(Links, Stats)]
    /\ UNCHANGED <<Links, Stats, mu, faults, saved, clicked, peak, backend, remote, http>>

\* s.LoadAll(): its RLock.
LoadStats_RLock1(p) ==
    /\ pc[p] = "LoadStats_RLock1" /\ CanRLock
    /\ mu' = RLocked
    /\ Goto(p, "LoadStats_LoadAll")
    /\ UNCHANGED <<Links, Stats, call, local, ret, calls, faults, saved, clicked, peak, window, backend, remote, http>>

\* s.LoadAll(): its query and RUnlock; then the linkmap is built.
LoadStats_LoadAll(p) ==
    /\ pc[p] = "LoadStats_LoadAll"
    /\ \E ok \in Outcomes :
          /\ Fault(ok)
          /\ LET all == LoadAllResult(ok)
             IN  IF all.err # "nil"
                 THEN Return(p, [err |-> all.err]) /\ UNCHANGED local
                 ELSE /\ local' = [local EXCEPT ![p] = [linkmap |-> LinkMap(all.links)]]
                      /\ Goto(p, "LoadStats_RLock2")
                      /\ UNCHANGED ret
    /\ mu' = RUnlocked
    /\ UNCHANGED <<Links, Stats, call, calls, saved, clicked, peak, window, backend, remote, http>>

LoadStats_RLock2(p) ==
    /\ pc[p] = "LoadStats_RLock2" /\ CanRLock
    /\ mu' = RLocked
    /\ Goto(p, "LoadStats_Query")
    /\ UNCHANGED <<Links, Stats, call, local, ret, calls, faults, saved, clicked, peak, window, backend, remote, http>>

\* What the GROUP BY query and the loop over its rows return.
LoadStatsResults(linkmap, ok) ==
    IF ok THEN { [err |-> "nil", stats |-> f] : f \in StatsResults(linkmap, GroupSum(Stats)) }
    ELSE { [err |-> "io"] }

LoadStats_Query(p) ==
    /\ pc[p] = "LoadStats_Query"
    /\ \E ok \in Outcomes :
          /\ Fault(ok)
          /\ \E r \in LoadStatsResults(local[p].linkmap, ok) : Return(p, r)
    /\ mu' = RUnlocked
    /\ UNCHANGED <<Links, Stats, call, local, calls, saved, clicked, peak, window, backend, remote, http>>

\* ---------------------------------------------------------------- SaveStats
Call_SaveStats(p) ==
    /\ CanCall(p, "sqlite")
    /\ \E stats \in StatsInputs :
          call' = [call EXCEPT ![p] = [op |-> "SaveStats", stats |-> stats]]
    /\ calls' = calls - 1
    /\ local' = [local EXCEPT ![p] = NoLocal]
    /\ ret' = [ret EXCEPT ![p] = Pending]
    /\ Goto(p, "SaveStats_Lock")
    /\ UNCHANGED <<Links, Stats, mu, faults, saved, clicked, peak, window, backend, remote, http>>

SaveStats_Lock(p) ==
    /\ pc[p] = "SaveStats_Lock" /\ CanAnnounce
    /\ mu' = Announced(p)
    /\ Goto(p, "SaveStats_Wait")
    /\ UNCHANGED <<Links, Stats, call, local, ret, calls, faults, saved, clicked, peak, window, backend, remote, http>>

SaveStats_Wait(p) ==
    /\ pc[p] = "SaveStats_Wait" /\ CanLock(p)
    /\ Goto(p, "SaveStats_BeginTx")
    /\ UNCHANGED <<Links, Stats, mu, call, local, ret, calls, faults, saved, clicked, peak, window, backend, remote, http>>

\* s.db.BeginTx: the transaction starts with no row written; todo holds the
\* entries the range loop has yet to visit.
SaveStats_BeginTx(p) ==
    /\ pc[p] = "SaveStats_BeginTx"
    /\ \E ok \in Outcomes :
          /\ Fault(ok)
          /\ IF ok
             THEN /\ local' = [local EXCEPT ![p] =
                        [tx |-> EmptyBag, todo |-> DOMAIN call[p].stats]]
                  /\ Goto(p, "SaveStats_Exec")
                  /\ UNCHANGED <<ret, mu>>
             ELSE /\ Return(p, [err |-> "io"])
                  /\ mu' = Unlocked
                  /\ UNCHANGED local
    /\ UNCHANGED <<Links, Stats, call, calls, saved, clicked, peak, window, backend, remote, http>>

\* The rows a transaction holds once the statement for one entry has run.
TxExec(tx, short, clicks) == tx (+) SetToBag({ StatsRow(short, clicks) })

\* A failure after which the rows written so far stay.
RollbackKeepsRows(table, tx) == table (+) tx

\* Table Stats once a transaction has been rolled back.
Rollback(table, tx) == table

\* One round of the range loop (a Go map is visited in any order): tx.Exec
\* of the INSERT; on its failure tx.Rollback() and return.
SaveStats_Exec(p) ==
    /\ pc[p] = "SaveStats_Exec" /\ local[p].todo # {}
    /\ \E short \in local[p].todo, ok \in Outcomes :
          /\ Fault(ok)
          /\ IF ok
             THEN /\ local' = [local EXCEPT ![p].tx = TxExec(@, short, call[p].stats[short]),
                                            ![p].todo = @ \ {short}]
                  /\ UNCHANGED <<pc, ret, mu>>
                  /\ UNCHANGED Stats
             ELSE /\ Stats' = Rollback(Stats, local[p].tx)
                  /\ local' = [local EXCEPT ![p].tx = EmptyBag]
                  /\ Return(p, [err |-> "io"])
                  /\ mu' = Unlocked
    /\ UNCHANGED <<Links, call, calls, saved, clicked, peak, window, backend, remote, http>>

\* A commit after which table Stats holds the rows of the transaction only.
CommitOverwrites(table, tx) == tx

\* Table Stats once a transaction has committed.
Commit(table, tx) == table (+) tx

\* The counts of a ClickStats value, added per key.
RECURSIVE KeyClicks(_, _, _)
KeyClicks(stats, names, k) ==
    IF names = {} THEN 0
    ELSE LET s == CHOOSE x \in names : TRUE
         IN  (IF linkID(s) = k THEN stats[s] ELSE 0) + KeyClicks(stats, names \ {s}, k)

Clicked(old, stats) ==
    LET keys == DOMAIN old \cup { linkID(s) : s \in DOMAIN stats }
    IN  [k \in keys |-> (IF k \in DOMAIN old THEN old[k] ELSE 0)
                          + KeyClicks(stats, DOMAIN stats, k)]

\* return tx.Commit(), once the loop has visited every entry.
SaveStats_Commit(p) ==
    /\ pc[p] = "SaveStats_Exec" /\ local[p].todo = {}
    /\ \E ok \in Outcomes :
          /\ Fault(ok)
          /\ IF ok
             THEN /\ Stats' = Commit(Stats, local[p].tx)
                  /\ clicked' = Clicked(clicked, call[p].stats)
                  /\ Return(p, [err |-> "nil"])
             ELSE /\ Return(p, [err |-> "io"])
                  /\ UNCHANGED <<Stats, clicked>>
    /\ window' = Watched(Links, Stats')
    /\ mu' = Unlocked
    /\ UNCHANGED <<Links, call, local, calls, saved, peak, backend, remote, http>>

\* ------------------------------------------------------------ specification
InitStore ==
    /\ Links = {}
    /\ Stats = EmptyBag
    /\ mu = [w |-> NoProc, readerCount |-> 0]
    /\ pc = [p \in Procs |-> "idle"]
    /\ call = [p \in Procs |-> NoCall]
    /\ local = [p \in Procs |-> NoLocal]
    /\ ret = [p \in Procs |-> Pending]
    /\ remote = [docs |-> {}, totals |-> << >>]
    /\ http = [p \in Procs |-> NoHttp]
    /\ saved = << >>
    /\ clicked = << >>
    /\ peak = 0
    /\ window = [p \in Procs |-> {}]

Init == InitStore /\ backend = "sqlite" /\ faults = 0 /\ calls = MaxCalls

InitFaults ==
    InitStore /\ backend = "sqlite" /\ faults = MaxFaults /\ calls = MaxCallsFaulty

Next ==
    \E p \in Procs :
       \/ Call_LoadAll(p) \/ LoadAll_RLock(p) \/ LoadAll_Query(p)
       \/ Call_Load(p) \/ Load_RLock(p) \/ Load_Query(p)
       \/ Call_Save(p) \/ Save_Lock(p) \/ Save_Wait(p) \/ Save_Exec(p)
       \/ Call_LoadStats(p) \/ LoadStats_RLock1(p) \/ LoadStats_LoadAll(p)
       \/ LoadStats_RLock2(p) \/ LoadStats_Query(p)
       \/ Call_SaveStats(p) \/ SaveStats_Lock(p) \/ SaveStats_Wait(p)
       \/ SaveStats_BeginTx(p) \/ SaveStats_Exec(p) \/ SaveStats_Commit(p)

\* The Local Store on an engine that does not fail.
Spec == Init /\ [][Next]_vars

\* The Local Store on an engine of which MaxFaults statements fail.
SpecFaults == InitFaults /\ [][Next]_vars

\* The steps of an operation that goroutine p has called.
Step(p) ==
    \/ LoadAll_RLock(p) \/ LoadAll_Query(p)
    \/ Load_RLock(p) \/ Load_Query(p)
    \/ Save_Lock(p) \/ Save_Wait(p) \/ Save_Exec(p)
    \/ LoadStats_RLock1(p) \/ LoadStats_LoadAll(p)
    \/ LoadStats_RLock2(p) \/ LoadStats_Query(p)
    \/ SaveStats_Lock(p) \/ SaveStats_Wait(p)
    \/ SaveStats_BeginTx(p) \/ SaveStats_Exec(p) \/ SaveStats_Commit(p)

\* The scheduler runs every goroutine that can run, and a goroutine that
\* waits for the mutex gets it once it stays free for it.
Fairness == \A p \in Procs : WF_vars(Step(p))

\* The Local Store under fair scheduling, MaxFaults of its statements failing.
SpecFair == InitFaults /\ [][Next]_vars /\ Fairness


\* ============================================================ Remote Store
\* The credential the ConvexDB was constructed with.
Token == "secret"

\* JSON values that cross the wire.  JAbsent is a field that is not there: a
\* json.RawMessage left nil.
JAbsent == [json |-> "absent"]
JNull == [json |-> "null"]
JObject(doc) == [json |-> "object", doc |-> doc]
JArray(docs) == [json |-> "array", docs |-> docs]
JMap(m) == [json |-> "map", m |-> m]

\* A LinkDocument whose short is the normalized key.
DocumentShortIsKey(link) ==
    [normalizedId |-> linkID(link.Short), short |-> linkID(link.Short),
     long |-> link.Long, created |-> Unix(link.Created),
     lastEdit |-> Unix(link.LastEdit), owner |-> link.Owner]

\* The LinkDocument Save sends for a Link.
Document(link) ==
    [normalizedId |-> linkID(link.Short), short |-> link.Short, long |-> link.Long,
     created |-> Unix(link.Created), lastEdit |-> Unix(link.LastEdit),
     owner |-> link.Owner]

\* The zero value of LinkDocument.
ZeroDocument ==
    [normalizedId |-> << >>, short |-> << >>, long |-> "", created |-> 0,
     lastEdit |-> 0, owner |-> ""]

\* The Link that Load and LoadAll make of a LinkDocument.
DocLink(doc) ==
    [Short |-> doc.short, Long |-> doc.long, Created |-> TimeUnix(doc.created),
     LastEdit |-> TimeUnix(doc.lastEdit), Owner |-> doc.owner]

\* The maps SaveStats' loop can build: mungedStats[linkID(id)] = clicks for
\* every entry, in any order: of the names that share a key any may be last.
MungedStats(stats) ==
    LET keys == { linkID(s) : s \in DOMAIN stats }
    IN  { f \in [keys -> { stats[s] : s \in DOMAIN stats }] :
            \A k \in keys : \E s \in DOMAIN stats : linkID(s) = k /\ f[k] = stats[s] }

\* A request whose args are sent as the operation made them.
RequestNoToken(endpoint, path, args) ==
    [endpoint |-> endpoint, path |-> path, args |-> args, format |-> "json"]

\* The request an operation hands to http.Post, with the token put into args.
Request(endpoint, path, args) ==
    [endpoint |-> endpoint, path |-> path, args |-> [token |-> Token] @@ args,
     format |-> "json"]

\* --------------------------------------------- the service (wire contract)
\* store: upsert by normalizedId.
ServiceStore(docs, doc) ==
    { d \in docs : d.normalizedId # doc.normalizedId } \cup { doc }

\* loadOne: the document, or an empty or absent value.
ServiceLoadOne(docs, id) ==
    LET found == { d \in docs : d.normalizedId = id }
    IN  IF found = {} THEN { JNull, JAbsent } ELSE { JObject(d) : d \in found }

\* saveStats: every delta is added to the running counter of its key.
ServiceSaveStats(totals, stats) ==
    [k \in DOMAIN totals \cup DOMAIN stats |->
        (IF k \in DOMAIN totals THEN totals[k] ELSE 0)
          + (IF k \in DOMAIN stats THEN stats[k] ELSE 0)]

\* The success envelope, with or without a value.
Success(value) == [malformed |-> FALSE, status |-> "success", value |-> value,
                   errorMessage |-> ""]

\* The answers of a service that follows the wire contract, each with the
\* state that the service is in after it.
ContractAnswers(req) ==
    CASE req.path = "load:loadAll" ->
            { [remote |-> remote, body |-> Success(JArray(remote.docs))] }
      [] req.path = "load:loadOne" ->
            { [remote |-> remote, body |-> Success(v)] :
                v \in ServiceLoadOne(remote.docs, req.args.normalizedId) }
      [] req.path = "store" ->
            { [remote |-> [remote EXCEPT !.docs = ServiceStore(@, req.args.link)],
               body |-> Success(JNull)] }
      [] req.path = "stats:loadStats" ->
            { [remote |-> remote, body |-> Success(JMap(remote.totals))] }
      [] req.path = "stats:saveStats" ->
            { [remote |-> [remote EXCEPT !.totals = ServiceSaveStats(@, req.args.stats)],
               body |-> Success(JNull)] }

\* The answers of a service or a network that breaks the wire contract: a
\* failed transport, another status, an error envelope, an envelope with
\* another status, a body that is no JSON, and success envelopes whose value
\* has the shape of another query's value.
FaultAnswers ==
    { [failed |-> TRUE],
      [failed |-> FALSE, StatusCode |-> 200,
       body |-> Success(JMap([k \in { <<"a">> } |-> 1]))],
      [failed |-> FALSE, StatusCode |-> 200, body |-> Success(JObject(ZeroDocument))],
      [failed |-> FALSE, StatusCode |-> 500, body |-> Success(JNull)],
      [failed |-> FALSE, StatusCode |-> 200,
       body |-> [malformed |-> FALSE, status |-> "error", value |-> JAbsent,
                 errorMessage |-> "boom"]],
      [failed |-> FALSE, StatusCode |-> 200,
       body |-> [malformed |-> FALSE, status |-> "pending", value |-> JNull,
                 errorMessage |-> ""]],
      [failed |-> FALSE, StatusCode |-> 200, body |-> [malformed |-> TRUE]] }

\* ------------------------------------------------------ mutation and query
\* ConvexDB.mutation, from http.Post on.
mutation(resp) ==
    IF resp.failed THEN [err |-> "http.Post"]
    ELSE IF resp.StatusCode # 200
         THEN [err |-> "unexpected status code from Convex: %d", arg |-> resp.StatusCode]
    ELSE IF resp.body.malformed THEN [err |-> "json.Decode"]
    ELSE IF resp.body.status = "success" THEN [err |-> "nil"]
    ELSE IF resp.body.status = "error"
         THEN [err |-> "error from Convex: %s", arg |-> resp.body.errorMessage]
    ELSE [err |-> "unexpected response from Convex: %s"]

\* query taking every envelope that is not a success for an error envelope.
queryNoOtherStatus(resp) ==
    IF resp.failed THEN [err |-> "http.Post"]
    ELSE IF resp.StatusCode # 200
         THEN [err |-> "unexpected status code from Convex: %d: %s",
               arg |-> resp.StatusCode]
    ELSE IF resp.body.malformed THEN [err |-> "json.Decode"]
    ELSE IF resp.body.status = "success" THEN [err |-> "nil", value |-> resp.body.value]
    ELSE [err |-> "error from Convex: %s", arg |-> resp.body.errorMessage]

\* ConvexDB.query, from http.Post on.
query(resp) ==
    IF resp.failed THEN [err |-> "http.Post"]
    ELSE IF resp.StatusCode # 200
         THEN [err |-> "unexpected status code from Convex: %d: %s",
               arg |-> resp.StatusCode]
    ELSE IF resp.body.malformed THEN [err |-> "json.Decode"]
    ELSE IF resp.body.status = "success" THEN [err |-> "nil", value |-> resp.body.value]
    ELSE IF resp.body.status = "error"
         THEN [err |-> "error from Convex: %s", arg |-> resp.body.errorMessage]
    ELSE [err |-> "unexpected response from Convex: %s"]

\* An error of query as the operation returns it.
Failed(q) == IF "arg" \in DOMAIN q THEN [err |-> q.err, arg |-> q.arg] ELSE [err |-> q.err]

\* What Load makes of the value of a successful loadOne query.  A JSON
\* object of another shape (here: one whose keys are normalized keys, none
\* of them a field of LinkDocument) decodes to a LinkDocument of zero
\* fields: unknown keys are ignored.
DecodeDoc(value) ==
    CASE value.json = "absent" -> [err |-> "io.EOF"]
      [] value.json = "null" -> [err |-> "fs.ErrNotExist"]
      [] value.json = "object" -> [err |-> "nil", link |-> DocLink(value.doc)]
      [] value.json = "map" -> [err |-> "nil", link |-> DocLink(ZeroDocument)]
      [] OTHER -> [err |-> "json.UnmarshalTypeError"]

\* What LoadAll makes of the value of a successful loadAll query.
DecodeDocs(value) ==
    CASE value.json = "absent" -> [err |-> "io.EOF"]
      [] value.json = "null" -> [err |-> "nil", links |-> {}]
      [] value.json = "array" -> [err |-> "nil", links |-> { DocLink(d) : d \in value.docs }]
      [] OTHER -> [err |-> "json.UnmarshalTypeError"]

\* What LoadStats makes of the value of a successful loadStats query.  A
\* JSON object with a value that is no number (a document) decodes into the
\* StatsMap, and v.(json.Number) panics on that value: LoadStats does not
\* return.
DecodeStats(value) ==
    CASE value.json = "absent" -> [err |-> "io.EOF"]
      [] value.json = "null" -> [err |-> "nil", stats |-> << >>]
      [] value.json = "map" -> [err |-> "nil", stats |-> value.m]
      [] value.json = "object" -> [panic |-> "interface conversion"]
      [] OTHER -> [err |-> "json.UnmarshalTypeError"]

\* ------------------------------------------------------------- operations
\* An operation up to http.Post: the request is on its way.
Post(p, c, req) ==
    /\ CanCall(p, "convex")
    /\ backend = "both" => c = call[Callers.sqlite]
    /\ calls' = calls - 1
    /\ call' = [call EXCEPT ![p] = c]
    /\ http' = [http EXCEPT ![p] = [state |-> "request", req |-> req]]
    /\ local' = [local EXCEPT ![p] = NoLocal]
    /\ ret' = [ret EXCEPT ![p] = Pending]
    /\ Goto(p, "http.Post")
    /\ UNCHANGED <<Links, Stats, mu, faults, backend, remote, saved, clicked, peak, window>>

Convex_LoadAll(p) ==
    Post(p, [op |-> "LoadAll"], Request("query", "load:loadAll", << >>))

Convex_Load(p) ==
    \E short \in Shorts :
       Post(p, [op |-> "Load", short |-> short],
            Request("query", "load:loadOne", [normalizedId |-> linkID(short)]))

Convex_Save(p) ==
    \E link \in LinkInputs :
       Post(p, [op |-> "Save", link |-> link],
            Request("mutation", "store", [link |-> Document(link)]))

Convex_LoadStats(p) ==
    Post(p, [op |-> "LoadStats"], Request("query", "stats:loadStats", << >>))

Convex_SaveStats(p) ==
    \E stats \in StatsInputs :
       \E munged \in MungedStats(stats) :
          Post(p, [op |-> "SaveStats", stats |-> stats],
               Request("mutation", "stats:saveStats", [stats |-> munged]))

\* What may come back for a request: an answer of the service, or, while
\* failures are left to inject, one of the other answers.
Answers(req) ==
    { [fault |-> FALSE, remote |-> a.remote,
       resp |-> [failed |-> FALSE, StatusCode |-> 200, body |-> a.body]] :
         a \in ContractAnswers(req) }
    \cup (IF faults > 0
          THEN { [fault |-> TRUE, remote |-> remote, resp |-> f] : f \in FaultAnswers }
          ELSE {})

\* The history of the calls the service has carried out.
ServedSaved(p, a) ==
    IF ~a.fault /\ call[p].op = "Save"
    THEN LET k == linkID(call[p].link.Short)
         IN  [x \in DOMAIN saved \cup {k} |-> IF x = k THEN call[p].link ELSE saved[x]]
    ELSE saved

ServedClicked(p, a) ==
    IF ~a.fault /\ call[p].op = "SaveStats" /\ backend # "both"
    THEN Clicked(clicked, call[p].stats)
    ELSE clicked

\* The service, or the network, answers the request of p.
Convex_Serve(p) ==
    /\ pc[p] = "http.Post" /\ http[p].state = "request"
    /\ \E a \in Answers(http[p].req) :
          /\ remote' = a.remote
          /\ http' = [http EXCEPT ![p] = [state |-> "response", req |-> http[p].req,
                                          resp |-> a.resp]]
          /\ Fault(~a.fault)
          /\ saved' = ServedSaved(p, a)
          /\ clicked' = ServedClicked(p, a)
    /\ UNCHANGED <<Links, Stats, mu, pc, call, local, ret, calls, backend, peak, window>>

\* An operation that sends its request again when query returns an error.
QueryRetries(p, op, result) ==
    /\ pc[p] = "http.Post" /\ http[p].state = "response" /\ call[p].op = op
    /\ IF query(http[p].resp).err # "nil"
       THEN /\ http' = [http EXCEPT ![p] = [state |-> "request", req |-> http[p].req]]
            /\ UNCHANGED <<pc, local, ret>>
       ELSE /\ local' = [local EXCEPT ![p] = query(http[p].resp)]
            /\ Return(p, result)
            /\ UNCHANGED http
    /\ UNCHANGED <<Links, Stats, mu, call, calls, faults, backend, remote,
                   saved, clicked, peak, window>>

\* The rest of an operation that calls query: local holds what query
\* returned, then the value is decoded.  A panic ends the call without a
\* return.
QueryReturns(p, op, result) ==
    /\ pc[p] = "http.Post" /\ http[p].state = "response" /\ call[p].op = op
    /\ local' = [local EXCEPT ![p] = query(http[p].resp)]
    /\ IF local'[p].err # "nil" THEN Return(p, Failed(local'[p]))
       ELSE IF "panic" \in DOMAIN result THEN Goto(p, "panic") /\ UNCHANGED ret
       ELSE Return(p, result)
    /\ UNCHANGED <<Links, Stats, mu, call, calls, faults, backend, remote, http,
                   saved, clicked, peak, window>>

\* The rest of an operation that calls mutation.
MutationReturns(p, op) ==
    /\ pc[p] = "http.Post" /\ http[p].state = "response" /\ call[p].op = op
    /\ Return(p, mutation(http[p].resp))
    /\ UNCHANGED <<Links, Stats, mu, call, local, calls, faults, backend, remote, http,
                   saved, clicked, peak, window>>

\* The value of a query that returned no error.
Value(resp) == query(resp).value

Convex_LoadAll_Response(p) ==
    QueryReturns(p, "LoadAll", DecodeDocs(Value(http[p].resp)))

Convex_Load_Response(p) ==
    QueryReturns(p, "Load", DecodeDoc(Value(http[p].resp)))

Convex_LoadStats_Response(p) ==
    QueryReturns(p, "LoadStats", DecodeStats(Value(http[p].resp)))

Convex_Save_Response(p) == MutationReturns(p, "Save")

Convex_SaveStats_Response(p) == MutationReturns(p, "SaveStats")

NextRemote ==
    \E p \in Procs :
       \/ Convex_LoadAll(p) \/ Convex_Load(p) \/ Convex_Save(p)
       \/ Convex_LoadStats(p) \/ Convex_SaveStats(p)
       \/ Convex_Serve(p)
       \/ Convex_LoadAll_Response(p) \/ Convex_Load_Response(p)
       \/ Convex_LoadStats_Response(p)
       \/ Convex_Save_Response(p) \/ Convex_SaveStats_Response(p)

InitRemote ==
    InitStore /\ backend = "convex" /\ faults = MaxFaults /\ calls = MaxCallsFaulty

\* The Remote Store, MaxFaults of whose requests are not answered with a
\* success envelope.
SpecRemote == InitRemote /\ [][NextRemote]_vars

InitStores ==
    InitStore /\ backend \in { "sqlite", "convex" } /\ faults = 0 /\ calls = MaxCalls

NextStores == Next \/ NextRemote

\* Either Storage Backend, chosen at construction; no statement or request
\* fails.
SpecStores == InitStores /\ [][NextStores]_vars

\* ------------------------------------------------- both stores side by side
InitBoth == InitStore /\ backend = "both" /\ faults = 0 /\ calls = 2 * MaxCalls

\* A SQLiteDB and a ConvexDB that receive the same calls, one call after the
\* other (see CanCall).  No statement fails and the service follows the
\* wire contract.
SpecBoth == InitBoth /\ [][NextStores]_vars

\* ------------------------------------------------------------------- claims
\* Goroutine p has returned from a call of op and has called nothing since.
Returned(p, op) == call[p].op = op /\ pc[p] = "idle"

\* Only goroutine p has called anything: its calls ran one after the other.
Sequential(p) == \A q \in Procs \ {p} : call[q].op = "none"

\* A loaded time is the saved time cut to the whole second.
SameSecond(loaded, t) == loaded = (t \div TicksPerSecond) * TicksPerSecond

\* A loaded Link is the saved Link, its times at whole-second resolution.
SameLink(loaded, link) ==
    /\ loaded.Short = link.Short
    /\ loaded.Long = link.Long
    /\ loaded.Owner = link.Owner
    /\ SameSecond(loaded.Created, link.Created)
    /\ SameSecond(loaded.LastEdit, link.LastEdit)

InWriteSection(p) == pc[p] \in { "Save_Exec", "SaveStats_BeginTx", "SaveStats_Exec" }
InReadSection(p) ==
    pc[p] \in { "LoadAll_Query", "Load_Query", "LoadStats_LoadAll", "LoadStats_Query" }

\* C1: after a sequence of successful Save and SaveStats calls, LoadStats
\* maps the display name of every stored Link that has a recorded delta to
\* the sum of all counts passed to SaveStats under the names of its key.
C1_StatsAccumulate ==
    \A p \in Procs :
       (Returned(p, "LoadStats") /\ Sequential(p) /\ ret[p].err = "nil") =>
          \A r \in Links :
             r.ID \in DOMAIN clicked =>
                /\ r.Short \in DOMAIN ret[p].stats
                /\ ret[p].stats[r.Short] = clicked[r.ID]

\* C2: every key of the mapping LoadStats returns is the display name of a
\* stored Link: a ledger entry without a Link appears under no key.
C2_StatsKeysAreLinks ==
    \A p \in Procs :
       (Returned(p, "LoadStats") /\ Sequential(p) /\ ret[p].err = "nil") =>
          DOMAIN ret[p].stats \subseteq { r.Short : r \in Links }

\* C3: Save is an upsert by key: table Links holds exactly one row for every
\* key saved, with all the fields of the last successful Save of that key,
\* and a Save returns nil whether or not the key existed.
C3_SaveUpsert ==
    /\ \A r1, r2 \in Links : r1.ID = r2.ID => r1 = r2
    /\ { r.ID : r \in Links } = DOMAIN saved
    /\ \A r \in Links :
          /\ r.ID = linkID(saved[r.ID].Short)
          /\ r.Short = saved[r.ID].Short
          /\ r.Long = saved[r.ID].Long
          /\ r.Owner = saved[r.ID].Owner
          /\ r.Created = saved[r.ID].Created \div TicksPerSecond
          /\ r.LastEdit = saved[r.ID].LastEdit \div TicksPerSecond
    /\ \A p \in Procs : Returned(p, "Save") => ret[p].err = "nil"

\* Two Saves of one key with different long values have returned.
C3_Witness ==
    \E p, q \in Procs :
       /\ p # q /\ Returned(p, "Save") /\ Returned(q, "Save")
       /\ ret[p].err = "nil" /\ ret[q].err = "nil"
       /\ linkID(call[p].link.Short) = linkID(call[q].link.Short)
       /\ call[p].link.Long # call[q].link.Long
       /\ Cardinality(Links) = 1

\* C4: the query of Load(short) yields fs.ErrNotExist exactly when no Save
\* of the key of short has succeeded before it, and a Link otherwise: never
\* another error.
C4_LoadNotFound ==
    [][\A p \in Procs :
          (pc[p] = "Load_Query" /\ pc'[p] = "idle") =>
             /\ ret'[p].err \in { "nil", "fs.ErrNotExist" }
             /\ ret'[p].err = "fs.ErrNotExist" <=> linkID(call[p].short) \notin DOMAIN saved]_vars

\* A Load has returned fs.ErrNotExist for a key never saved while another
\* key has been saved.
C4_Witness ==
    \E p \in Procs :
       /\ Returned(p, "Load") /\ ret[p].err = "fs.ErrNotExist"
       /\ saved # << >>
       /\ linkID(call[p].short) \notin DOMAIN saved

\* The rows of table Stats that record a ClickStats value.
RECURSIVE DeltaRows(_, _)
DeltaRows(stats, names) ==
    IF names = {} THEN EmptyBag
    ELSE LET s == CHOOSE x \in names : TRUE
         IN  SetToBag({ [ID |-> linkID(s), Clicks |-> stats[s]] })
               (+) DeltaRows(stats, names \ {s})

\* C6: SaveStats is all or nothing: a statement that fails ends the call with
\* an error, and while a call is in its transaction table Stats changes in
\* one step only, the step in which the call returns nil, and then by a row
\* for every delta of the call.
C6_SaveStatsAllOrNothing ==
    [][\A p \in Procs :
          pc[p] \in { "SaveStats_BeginTx", "SaveStats_Exec" } =>
             /\ faults' # faults => (pc'[p] = "idle" /\ ret'[p].err # "nil")
             /\ IF pc'[p] = "idle" /\ ret'[p].err = "nil"
                THEN Stats' = Stats (+) DeltaRows(call[p].stats, DOMAIN call[p].stats)
                ELSE Stats' = Stats]_vars

\* A SaveStats of two deltas has returned an error after it wrote one.
C6_Witness ==
    \E p \in Procs :
       /\ Returned(p, "SaveStats") /\ ret[p].err = "io"
       /\ Cardinality(DOMAIN call[p].stats) = 2
       /\ "todo" \in DOMAIN local[p]
       /\ Cardinality(local[p].todo) = 1

\* C7: Saves of distinct keys that run concurrently all return nil, and a
\* LoadAll whose query runs when no Save is in progress yields exactly one
\* record for every key saved, the record of its Save.
C7_ConcurrentSaves ==
    /\ [](\A p \in Procs : Returned(p, "Save") => ret[p].err = "nil")
    /\ [][\A p \in Procs :
             (/\ pc[p] = "LoadAll_Query" /\ pc'[p] = "idle"
              /\ \A q \in Procs : pc[q] \notin SaveLabels) =>
                /\ ret'[p].err = "nil"
                /\ Cardinality(ret'[p].links) = Cardinality(DOMAIN saved)
                /\ \A k \in DOMAIN saved :
                      \E l \in ret'[p].links : SameLink(l, saved[k])
                /\ \A l \in ret'[p].links :
                      /\ linkID(l.Short) \in DOMAIN saved
                      /\ SameLink(l, saved[linkID(l.Short)])]_vars

\* Two Saves were in progress at once, both have returned, and a LoadAll
\* after them has returned two records.
C7_Witness ==
    /\ peak >= 2
    /\ \A q \in Procs : pc[q] \notin SaveLabels
    /\ \E p \in Procs :
          /\ Returned(p, "LoadAll") /\ ret[p].err = "nil"
          /\ Cardinality(ret[p].links) = 2

\* C8: while a Save or SaveStats is in its critical section no other
\* operation, reader or writer, is in a critical section; so a LoadAll or
\* Load critical section overlaps with read-mode critical sections only.
C8_LockDiscipline ==
    \A p, q \in Procs :
       (p # q /\ InWriteSection(p)) => ~InWriteSection(q) /\ ~InReadSection(q)

\* A Save is in its critical section while a Load waits for the read lock.
C8_Witness ==
    \E p, q \in Procs : pc[p] = "Save_Exec" /\ pc[q] = "Load_RLock"


\* C5: a Link saved and then loaded, by calls that run one after the other
\* and by any name of its key, comes back with its short, long and owner,
\* and with its times at whole-second resolution, on either backend.
C5_RoundTrip ==
    \A p \in Procs :
       (/\ Returned(p, "Load") /\ Sequential(p)
        /\ linkID(call[p].short) \in DOMAIN saved) =>
          /\ ret[p].err = "nil"
          /\ SameLink(ret[p].link, saved[linkID(call[p].short)])

\* The Remote Store has loaded a Link by another name than the one it was
\* saved under, and the sub-second part of its times is gone.
C5_Witness ==
    \E p \in Procs :
       /\ backend = "convex" /\ Returned(p, "Load") /\ Sequential(p)
       /\ ret[p].err = "nil"
       /\ call[p].short # ret[p].link.Short
       /\ ret[p].link.Created # saved[linkID(call[p].short)].Created

\* An error that tells of a breach of the protocol.
ProtocolError(out) ==
    out.err \in { "unexpected status code from Convex: %d",
                  "unexpected status code from Convex: %d: %s",
                  "unexpected response from Convex: %s",
                  "json.Decode" }

\* C9: what query and mutation make of a response: a status other than 200
\* is a protocol error whatever the body; after a status 200 the envelope
\* status "success" is success (with the value, for a query), "error" is an
\* application error that carries errorMessage, anything else a protocol
\* error.
C9_ResponseClassification ==
    \A p \in Procs :
       (pc[p] = "idle" /\ http[p].state = "response" /\ ~http[p].resp.failed) =>
          LET resp == http[p].resp
              isQuery == http[p].req.endpoint = "query"
              out == IF isQuery THEN local[p] ELSE ret[p]
          IN  IF resp.StatusCode # 200 \/ resp.body.malformed
              THEN ProtocolError(out)
              ELSE CASE resp.body.status = "success" ->
                          /\ out.err = "nil"
                          /\ isQuery => out.value = resp.body.value
                     [] resp.body.status = "error" ->
                          /\ out.err = "error from Convex: %s"
                          /\ out.arg = resp.body.errorMessage
                     [] OTHER -> ProtocolError(out)

\* A query has been answered with an error envelope and an envelope of
\* another status has been returned as a protocol error.
C9_Witness ==
    \E p \in Procs :
       /\ pc[p] = "idle" /\ http[p].state = "response" /\ ~http[p].resp.failed
       /\ http[p].req.endpoint = "query"
       /\ http[p].resp.StatusCode = 200 /\ ~http[p].resp.body.malformed
       /\ http[p].resp.body.status = "pending"
       /\ ret[p].err = "unexpected response from Convex: %s"

\* C10: a loadOne query answered with a success envelope whose value is null
\* or absent makes Load return fs.ErrNotExist.
C10_LoadEmptyIsNotFound ==
    \A p \in Procs :
       (/\ backend = "convex" /\ Returned(p, "Load")
        /\ http[p].state = "response" /\ ~http[p].resp.failed
        /\ http[p].resp.StatusCode = 200 /\ ~http[p].resp.body.malformed
        /\ http[p].resp.body.status = "success"
        /\ http[p].resp.body.value.json \in { "null", "absent" }) =>
          ret[p].err = "fs.ErrNotExist"

\* C18: LoadStats is atomic with respect to concurrent writers: the mapping
\* it returns is one that LoadStats computes on a single store state, Links
\* and Stats together, that existed between its call and its return.
C18_LoadStatsAtomic ==
    \A p \in Procs :
       (Returned(p, "LoadStats") /\ ret[p].err = "nil") => ret[p].stats \in window[p]

\* C19: a Save that returns an error leaves table Links as it was, also when
\* the statement was executed and the check of the row count fails.
C19_FailedSaveChangesNothing ==
    [][\A p \in Procs :
          (pc[p] = "Save_Exec" /\ pc'[p] = "idle" /\ ret'[p].err # "nil") =>
             Links' = Links]_vars

\* C12: no operation deletes a Link: no step takes a key out of table Links;
\* once a Save of a key has returned nil, no Load of a name of that key
\* returns fs.ErrNotExist, and it returns a Link unless the engine fails; the
\* keys a LoadAll returns are the keys of table Links and include the keys
\* every earlier LoadAll returned.
C12_NoDeletion ==
    [][/\ { r.ID : r \in Links } \subseteq { r.ID : r \in Links' }
       /\ \A p \in Procs :
             (/\ pc[p] = "Load_Query" /\ pc'[p] = "idle"
              /\ linkID(call[p].short) \in DOMAIN saved) =>
                /\ ret'[p].err # "fs.ErrNotExist"
                /\ faults' = faults => ret'[p].err = "nil"
       /\ \A p \in Procs :
             (pc[p] = "LoadAll_Query" /\ pc'[p] = "idle" /\ ret'[p].err = "nil") =>
                /\ { linkID(l.Short) : l \in ret'[p].links } = { r.ID : r \in Links }
                /\ \A q \in Procs \ {p} :
                      (Returned(q, "LoadAll") /\ ret[q].err = "nil") =>
                         { linkID(l.Short) : l \in ret[q].links }
                            \subseteq { linkID(l.Short) : l \in ret'[p].links }]_vars

\* The Local Store has loaded a saved Link by another name of its key.
C12_Witness ==
    \E p \in Procs :
       /\ backend = "sqlite" /\ Returned(p, "Load") /\ ret[p].err = "nil"
       /\ linkID(call[p].short) \in DOMAIN saved
       /\ call[p].short # ret[p].link.Short

\* C15: the lock is released on every exit path: whenever no operation is
\* in progress, no writer owns or awaits the mutex and it counts no reader,
\* whatever the operations returned.
C15_LockReleased ==
    (\A p \in Procs : pc[p] = "idle") => mu = [w |-> NoProc, readerCount |-> 0]

\* Nothing is in progress after a SaveStats that was rolled back and a Load
\* that returned fs.ErrNotExist.
C15_Witness ==
    /\ \A p \in Procs : pc[p] = "idle"
    /\ \E p, q \in Procs :
          /\ Returned(p, "SaveStats") /\ ret[p].err = "io"
          /\ "todo" \in DOMAIN local[p] /\ local[p].todo # {}
          /\ Returned(q, "Load") /\ ret[q].err = "fs.ErrNotExist"

\* C20: frame conditions: a step of Save changes no record but the one of
\* the key of its Link, and nothing of table Stats; a step of SaveStats
\* changes nothing of table Links and only adds rows to table Stats; a step
\* of LoadAll, Load or LoadStats changes neither table.
C20_Frame ==
    [][\A p \in Procs :
          (pc'[p] # pc[p] \/ local'[p] # local[p]) =>
             CASE call'[p].op = "Save" ->
                     /\ Stats' = Stats
                     /\ { r \in Links' : r.ID # linkID(call'[p].link.Short) }
                          = { r \in Links : r.ID # linkID(call'[p].link.Short) }
               [] call'[p].op = "SaveStats" ->
                     /\ Links' = Links
                     /\ Stats \sqsubseteq Stats'
               [] OTHER -> Links' = Links /\ Stats' = Stats]_vars

\* A Save has added a record next to the record of another key.
C20_Witness ==
    /\ Cardinality(Links) = 2
    /\ \E p \in Procs : Returned(p, "Save") /\ ret[p].err = "nil" /\ Sequential(p)

\* C13: every request of the Remote Store has format "json" and carries in
\* its args the token the store was constructed with, next to the
\* parameters of its operation; LoadAll, Load and LoadStats send to the
\* query endpoint, Save and SaveStats to the mutation endpoint.
C13_RequestShape ==
    \A p \in Procs :
       http[p].state # "none" =>
          LET req == http[p].req
              c == call[p]
          IN  /\ req.format = "json"
              /\ "token" \in DOMAIN req.args
              /\ req.args.token = Token
              /\ CASE c.op = "LoadAll" ->
                         /\ req.endpoint = "query" /\ req.path = "load:loadAll"
                         /\ DOMAIN req.args = { "token" }
                    [] c.op = "Load" ->
                         /\ req.endpoint = "query" /\ req.path = "load:loadOne"
                         /\ DOMAIN req.args = { "token", "normalizedId" }
                         /\ req.args.normalizedId = linkID(c.short)
                    [] c.op = "LoadStats" ->
                         /\ req.endpoint = "query" /\ req.path = "stats:loadStats"
                         /\ DOMAIN req.args = { "token" }
                    [] c.op = "Save" ->
                         /\ req.endpoint = "mutation" /\ req.path = "store"
                         /\ DOMAIN req.args = { "token", "link" }
                         /\ req.args.link.normalizedId = linkID(c.link.Short)
                         /\ req.args.link.short = c.link.Short
                    [] c.op = "SaveStats" ->
                         /\ req.endpoint = "mutation" /\ req.path = "stats:saveStats"
                         /\ DOMAIN req.args = { "token", "stats" }
                         /\ DOMAIN req.args.stats = { linkID(s) : s \in DOMAIN c.stats }

\* A SaveStats request is on its way while a Load has its response.
C13_Witness ==
    \E p, q \in Procs :
       /\ http[p].state = "request" /\ call[p].op = "SaveStats"
       /\ http[q].state = "response" /\ call[q].op = "Load"

\* C14: a SaveStats whose map holds several names of one key records the
\* sum of their counts for the key: on the Local Store the rows of the key
\* add up to all counts saved for it, and on the Remote Store the stats
\* argument of the saveStats mutation carries the sum for the key.
C14_SharedKeySum ==
    /\ backend = "sqlite" =>
          \A k \in DOMAIN clicked :
             k \in DOMAIN GroupSum(Stats) /\ GroupSum(Stats)[k] = clicked[k]
    /\ \A p \in Procs :
          (http[p].state # "none" /\ call[p].op = "SaveStats") =>
             \A k \in DOMAIN http[p].req.args.stats :
                http[p].req.args.stats[k]
                   = KeyClicks(call[p].stats, DOMAIN call[p].stats, k)

\* The answer to a request is no success: the transport failed, the status
\* is not 200, the envelope is malformed or its status is not "success".
NoSuccess(resp) ==
    \/ resp.failed
    \/ resp.StatusCode # 200
    \/ resp.body.malformed
    \/ resp.body.status # "success"

\* C17: every call of the Remote Store sends exactly one request: a request
\* is sent in the step that begins a call and in no other step, and once
\* the response is there the next step of the call ends it, by a return
\* with an error when the answer is no success.
C17_OneRequestNoRetry ==
    [][\A p \in Procs :
          /\ (backend = "convex" /\ pc[p] = "idle" /\ pc'[p] # "idle") =>
                http'[p].state = "request"
          /\ (http'[p] # http[p] /\ http'[p].state = "request") =>
                pc[p] = "idle" /\ pc'[p] = "http.Post"
          /\ (http'[p] # http[p] /\ http'[p].state = "response") =>
                http[p].state = "request" /\ http'[p].req = http[p].req
          /\ (/\ pc[p] = "http.Post" /\ http[p].state = "response"
              /\ (pc'[p] # pc[p] \/ http'[p] # http[p])) =>
                /\ pc'[p] \in { "idle", "panic" } /\ http'[p] = http[p]
                /\ NoSuccess(http[p].resp) => (pc'[p] = "idle" /\ ret'[p].err # "nil")]_vars

\* A Save has returned the error of a failed transport.
C17_Witness ==
    \E p \in Procs :
       /\ Returned(p, "Save") /\ http[p].state = "response"
       /\ http[p].resp.failed /\ ret[p].err = "http.Post"

\* C11: after one sequence of successful Save and SaveStats calls applied
\* to a Local Store and to a Remote Store whose service follows the wire
\* contract, LoadStats returns the same mapping on both.
C11_BackendEquivalence ==
    (/\ backend = "both"
     /\ Returned(Callers.sqlite, "LoadStats") /\ Returned(Callers.convex, "LoadStats")
     /\ calls % 2 = 0) =>
        /\ ret[Callers.sqlite].err = "nil" /\ ret[Callers.convex].err = "nil"
        /\ ret[Callers.sqlite].stats = ret[Callers.convex].stats

\* C16: under fair scheduling every operation that was called returns,
\* LoadStats included, which has released its first read lock when it asks
\* for the second and so does not block a waiting writer.
C16_EveryCallReturns == \A p \in Procs : (pc[p] # "idle") ~> (pc[p] = "idle")

\* A LoadStats asks for its second read lock while a Save that announced
\* itself during the first one waits for the mutex.
C16_Witness ==
    \E p, q \in Procs :
       /\ pc[p] = "LoadStats_RLock2" /\ pc[q] = "Save_Wait"
       /\ mu = [w |-> q, readerCount |-> 0]

====
